---- MODULE Spec2Model ----
(***************************************************************************)
(* SentinelArray<T, N> (src/src/SentinelArray.h): a std::array<T, N> with  *)
(* a movable end marker m_sentinel.                                        *)
(*                                                                         *)
(* One object is modelled.  Its memory exists before its constructor runs  *)
(* and holds indeterminate bits: Init draws the storage and m_sentinel     *)
(* from every value of the bounded domains, and a constructor only changes *)
(* what its code assigns.  Iterators and references are modelled by the    *)
(* offset from data() of the slot they designate.  The build is either an  *)
(* assertion build or an NDEBUG build (assert compiled out); ndebug is     *)
(* chosen in Init and never changes.                                       *)
(***************************************************************************)
EXTENDS Integers, Sequences, FiniteSets, TLC

\* Capacity (template parameter N).
N == 2
\* How far beyond N a length, a position or a sequence length may go.
Over == 1
\* Element values are 0..MaxVal (0 is the value-initialised T).
MaxVal == 1

Slots == 0 .. (N - 1)
Values == 0 .. MaxVal
MaxSentinel == N + Over
Sizes == 0 .. MaxSentinel

\* All sequences over S of length at most n (initializer lists, ranges).
SeqsUpTo(S, n) == UNION {[1 .. k -> S] : k \in 0 .. n}
InitLists == SeqsUpTo(Values, MaxSentinel)

VARIABLES
    storage,      \* the std::array<T,N> base: slot -> value
    m_sentinel,   \* the private size_type member
    phase,        \* "raw" before a constructor has run, "live" after
    aborted,      \* the process was terminated (assert failure or crash)
    ndebug,       \* the build compiles assert() out
    last          \* the last call: operation, arguments and result

vars == <<storage, m_sentinel, phase, aborted, ndebug, last>>

\* Results of a call.
Ref(pos) == [kind |-> "ref", n |-> pos]
Iter(pos) == [kind |-> "iterator", n |-> pos]
SizeT(n) == [kind |-> "size", n |-> n]
Bool(b) == [kind |-> IF b THEN "true" ELSE "false", n |-> 0]
OutOfRange(pos) == [kind |-> "out_of_range", n |-> pos]
Void == [kind |-> "void", n |-> 0]
Abort == [kind |-> "abort", n |-> 0]

NoOther == [storage |-> [i \in Slots |-> 0], m_sentinel |-> 0]
Call(op, init, pos, other, ret) ==
    [op |-> op, init |-> init, pos |-> pos, other |-> other, ret |-> ret]

Init ==
    /\ storage \in [Slots -> Values]
    /\ m_sentinel \in Sizes
    /\ phase = "raw"
    /\ aborted = FALSE
    /\ ndebug \in BOOLEAN
    /\ last = Call("none", <<>>, 0, NoOther, Void)

(***************************************************************************)
(* Observers: the const members, as functions of the object's state.       *)
(***************************************************************************)

\* std::array<T,N>::begin(), inherited: data().
begin == 0

\* A bug end() could have: std::array's own end(), data() + N.
EndOfStorage == N

\* end() noexcept: iterator(data() + m_sentinel).
end == m_sentinel

\* cend() const noexcept.
cend == m_sentinel

\* A bug rbegin() could have: std::array's own rbegin(), seeded at data() + N.
RbeginOfStorage == N

\* rbegin() noexcept: reverse_iterator(data() + m_sentinel); the offset is
\* that of the reverse iterator's base.
rbegin == m_sentinel

\* crbegin() const noexcept.
crbegin == m_sentinel

\* std::array<T,N>::rend(), inherited: reverse_iterator(begin()).
rend == begin

\* size() const noexcept.
size == m_sentinel

\* std::array<T,N>::operator[], inherited: no check, a reference to slot pos.
index(pos) == Ref(pos)

\* A bug at() could have: std::array's own check, against the capacity.
AtChecksCapacity(pos) == IF ~(pos < N) THEN OutOfRange(pos) ELSE Ref(pos)

\* at(pos): throws std::out_of_range unless pos < m_sentinel.
at(pos) == IF ~(pos < m_sentinel) THEN OutOfRange(pos) ELSE index(pos)

\* A bug back() could have: std::array's own back(), the last slot.
BackOfStorage == Ref(N - 1)

\* back() noexcept: m_sentinel ? *(end() - 1) : *end().
back == IF m_sentinel # 0 THEN Ref(end - 1) ELSE Ref(end)

\* The value read through a reference to slot pos.  A slot outside the
\* storage is not the object's memory: reading it yields -1, no Value.
Deref(pos) == IF pos \in Slots THEN storage[pos] ELSE -1

\* for (it = first; it != stop; ++it): the slots visited, in order.
RECURSIVE Walk(_, _)
Walk(it, stop) == IF it = stop THEN <<>> ELSE <<it>> \o Walk(it + 1, stop)

\* for (rit = first; rit != stop; ++rit) over reverse iterators given by
\* their bases: *rit is the slot before the base, ++rit lowers the base.
RECURSIVE RWalk(_, _)
RWalk(rit, stop) ==
    IF rit = stop THEN <<>> ELSE <<rit - 1>> \o RWalk(rit - 1, stop)

\* Range iteration begin()..end() and rbegin()..rend().
ForwardSlots == Walk(begin, end)
ReverseSlots == RWalk(rbegin, rend)
ForwardValues == [i \in 1 .. Len(ForwardSlots) |-> Deref(ForwardSlots[i])]

\* operator== of std::array<T,N>, found through the public base: it compares
\* the N slots of both operands and knows nothing of m_sentinel.
eq(other) == \A i \in Slots : storage[i] = other.storage[i]

(***************************************************************************)
(* Construction and assignment.                                            *)
(***************************************************************************)

\* A bug the assertion could have: off by one.
CapacityAssertOffByOne(k) == k <= N + 1

\* assert(m_sentinel <= N).
CapacityAssert(k) == k <= N

\* size_t i(0); for (it = init.begin(); it != init.end(); ++it, ++i)
\*   data()[i] = *it;
\* A write to data()[i] with i >= N lands outside the storage.
RECURSIVE CopyLoop(_, _, _)
CopyLoop(st, init, i) ==
    IF i = Len(init) THEN st
    ELSE CopyLoop(IF i \in Slots THEN [st EXCEPT ![i] = init[i + 1]] ELSE st,
                  init, i + 1)

\* The common body of the two sequence constructors and of operator=:
\* m_sentinel takes the sequence's length, the assertion is evaluated, the
\* loop copies.  In an assertion build a failed assertion terminates the
\* process before the loop.  In an NDEBUG build a longer sequence is copied
\* past the storage: undefined behaviour, whose outcomes here are a crash or
\* a return, with m_sentinel (the member laid out after the storage)
\* holding any value.
SequenceCopy(op, init, done) ==
    LET k == Len(init) IN
    IF ~ndebug /\ ~CapacityAssert(k)
    THEN /\ m_sentinel' = k
         /\ storage' = storage
         /\ aborted' = TRUE
         /\ UNCHANGED phase
         /\ last' = Call(op, init, 0, NoOther, Abort)
    ELSE IF k <= N
    THEN /\ m_sentinel' = k
         /\ storage' = CopyLoop(storage, init, 0)
         /\ phase' = done
         /\ UNCHANGED aborted
         /\ last' = Call(op, init, 0, NoOther, Void)
    ELSE /\ m_sentinel' \in Sizes
         /\ storage' = CopyLoop(storage, init, 0)
         /\ aborted' \in BOOLEAN
         /\ phase' = done
         /\ last' = Call(op, init, 0, NoOther, IF aborted' THEN Abort ELSE Void)

\* SentinelArray() = default, default-initialisation (SentinelArray<T,N> a;):
\* no member is written.
DefaultCtor ==
    /\ phase = "raw" /\ ~aborted
    /\ phase' = "live"
    /\ last' = Call("SentinelArray()", <<>>, 0, NoOther, Void)
    /\ UNCHANGED <<storage, m_sentinel, aborted, ndebug>>

\* SentinelArray() = default, value-initialisation (SentinelArray<T,N> a{};):
\* the constructor is not user-provided, so the object is zeroed first.
ValueInitCtor ==
    /\ phase = "raw" /\ ~aborted
    /\ phase' = "live"
    /\ storage' = [i \in Slots |-> 0]
    /\ m_sentinel' = 0
    /\ last' = Call("SentinelArray{}", <<>>, 0, NoOther, Void)
    /\ UNCHANGED <<aborted, ndebug>>

\* SentinelArray(std::initializer_list<T> init).
InitListCtor(init) ==
    /\ phase = "raw" /\ ~aborted
    /\ SequenceCopy("SentinelArray(init)", init, "live")
    /\ UNCHANGED ndebug

\* SentinelArray(Iter begin, Iter end) over a random-access range holding rng.
IterCtor(rng) ==
    /\ phase = "raw" /\ ~aborted
    /\ SequenceCopy("SentinelArray(begin,end)", rng, "live")
    /\ UNCHANGED ndebug

\* A bug operator= could have: clearing the slots after the copied ones.
AssignClearsTail(init) ==
    /\ phase = "live" /\ ~aborted
    /\ IF Len(init) <= N
       THEN /\ m_sentinel' = Len(init)
            /\ storage' = [i \in Slots |->
                              IF i < Len(init) THEN init[i + 1] ELSE 0]
            /\ last' = Call("operator=", init, 0, NoOther, Void)
            /\ UNCHANGED <<phase, aborted>>
       ELSE SequenceCopy("operator=", init, "live")
    /\ UNCHANGED ndebug

\* operator=(std::initializer_list<T> init).
Assign(init) ==
    /\ phase = "live" /\ ~aborted
    /\ SequenceCopy("operator=", init, "live")
    /\ UNCHANGED ndebug

(***************************************************************************)
(* Mutators of a live object.                                              *)
(***************************************************************************)

\* A bug setSentinel could have: value-initialising the slots it uncovers,
\* as a resize() does.
SetSentinelResizes(s) ==
    /\ phase = "live" /\ ~aborted
    /\ m_sentinel' = s
    /\ storage' = [i \in Slots |->
                     IF m_sentinel <= i /\ i < s THEN 0 ELSE storage[i]]
    /\ last' = Call("setSentinel", <<>>, s, NoOther, Void)
    /\ UNCHANGED <<phase, aborted, ndebug>>

\* setSentinel(s): m_sentinel = s, nothing else.
setSentinel(s) ==
    /\ phase = "live" /\ ~aborted
    /\ m_sentinel' = s
    /\ last' = Call("setSentinel", <<>>, s, NoOther, Void)
    /\ UNCHANGED <<storage, phase, aborted, ndebug>>

\* a[pos] = v through the inherited operator[], for a slot of the storage.
IndexWrite(pos, v) ==
    /\ phase = "live" /\ ~aborted
    /\ pos \in Slots
    /\ storage' = [storage EXCEPT ![pos] = v]
    /\ last' = Call("operator[]=", <<v>>, pos, NoOther, index(pos))
    /\ UNCHANGED <<m_sentinel, phase, aborted, ndebug>>

(***************************************************************************)
(* Calls of the observers: the object is left alone, the result recorded.  *)
(***************************************************************************)

Observe(op, pos, other, ret) ==
    /\ phase = "live" /\ ~aborted
    /\ last' = Call(op, <<>>, pos, other, ret)
    /\ UNCHANGED <<storage, m_sentinel, phase, aborted, ndebug>>

CallSize == Observe("size", 0, NoOther, SizeT(size))
CallEnd == Observe("end", 0, NoOther, Iter(end))
CallCend == Observe("cend", 0, NoOther, Iter(cend))
CallRbegin == Observe("rbegin", 0, NoOther, Iter(rbegin))
CallCrbegin == Observe("crbegin", 0, NoOther, Iter(crbegin))
CallAt(pos) == Observe("at", pos, NoOther, at(pos))
CallBack == Observe("back", 0, NoOther, back)

\* a == b for another SentinelArray<T,N> b, given by its storage and length.
Others == [storage : [Slots -> Values], m_sentinel : 0 .. N]
CallEq(other) == Observe("operator==", 0, other, Bool(eq(other)))

Next ==
    \/ DefaultCtor
    \/ ValueInitCtor
    \/ \E init \in InitLists : InitListCtor(init)
    \/ \E rng \in InitLists : IterCtor(rng)
    \/ \E init \in InitLists : Assign(init)
    \/ \E s \in Sizes : setSentinel(s)
    \/ \E pos \in Slots, v \in Values : IndexWrite(pos, v)
    \/ CallSize
    \/ CallEnd
    \/ CallCend
    \/ CallRbegin
    \/ CallCrbegin
    \/ \E pos \in Sizes : CallAt(pos)
    \/ CallBack

Spec == Init /\ [][Next]_vars

\* The same program with comparisons against other containers.
NextEq ==
    \/ Next
    \/ \E other \in Others : CallEq(other)

SpecEq == Init /\ [][NextEq]_vars

TypeOK ==
    /\ storage \in [Slots -> Values]
    /\ m_sentinel \in Sizes
    /\ phase \in {"raw", "live"}
    /\ aborted \in BOOLEAN
    /\ ndebug \in BOOLEAN

(***************************************************************************)
(* Properties.                                                             *)
(***************************************************************************)

Live == phase = "live" /\ ~aborted
SeqCtorOps == {"SentinelArray(init)", "SentinelArray(begin,end)"}
SeqOps == SeqCtorOps \cup {"operator="}

\* The slots 0 .. n-1 in order, and in reverse order.
Prefix(n) == [i \in 1 .. n |-> i - 1]
ReversedPrefix(n) == [i \in 1 .. n |-> n - i]

\* C1: right after construction from a sequence of k <= N elements, size()
\* is k and iterating begin()..end() visits slots 0..k-1 and yields exactly
\* the k elements given, in order.
C1_ConstructFromSequence ==
    (last.op \in SeqCtorOps /\ Len(last.init) <= N) =>
        /\ Live
        /\ size = Len(last.init)
        /\ ForwardSlots = Prefix(Len(last.init))
        /\ ForwardValues = last.init

\* A container built from one element with capacity to spare.
C1_Witness ==
    /\ last.op = "SentinelArray(init)"
    /\ Len(last.init) = 1 /\ 1 < N
    /\ size = 1
    /\ ForwardValues = last.init

\* C2, for the call it names first: whenever setSentinel(s) has returned,
\* whatever s was, the observable object's logical length is at most N.
C2_LengthWithinCapacity ==
    (Live /\ last.op = "setSentinel") => (0 <= size /\ size <= N)

\* C3 as stated: every construction or assignment of a sequence longer than N
\* fails, and the failing call writes no slot.
C3_OverlongAlwaysFails ==
    [][(last'.op \in SeqOps /\ Len(last'.init) > N) =>
           (aborted' /\ last'.ret = Abort /\ storage' = storage)]_vars

\* C3 amended: in a build with assertions enabled, every construction or
\* assignment of a sequence longer than N fails at the assertion, and the
\* failing call writes no slot.
C3_OverlongFailsWhenAsserting ==
    [][(~ndebug /\ last'.op \in SeqOps /\ Len(last'.init) > N) =>
           (aborted' /\ last'.ret = Abort /\ storage' = storage)]_vars

\* An assignment of more than N elements stopped by the assertion.
C3_Witness ==
    /\ ~ndebug /\ aborted
    /\ last.op = "operator=" /\ Len(last.init) > N
    /\ last.ret = Abort

\* C4: on a live object, for every position pos, at(pos) throws exactly when
\* pos >= m_sentinel (also when pos < N), and otherwise returns the slot that
\* operator[] returns; a recorded call of at() returned just that.
C4_AtChecksLength ==
    Live =>
        /\ \A pos \in Sizes :
              /\ (at(pos) = OutOfRange(pos)) <=> (pos >= size)
              /\ (pos < size) => (at(pos) = index(pos) /\ at(pos) = Ref(pos))
        /\ (last.op = "at") => (last.ret = at(last.pos))

\* at() refused a position inside the capacity but not below the length.
C4_Witness ==
    /\ Live /\ last.op = "at"
    /\ size <= last.pos /\ last.pos < N
    /\ last.ret = OutOfRange(last.pos)

\* C5: right after default construction size() is 0 and begin() = end().
C5_DefaultCtorEmpty ==
    (last.op = "SentinelArray()") => (size = 0 /\ begin = end)

\* C6: setSentinel(s) with s <= N makes size() s and writes no slot, so that
\* at() and iteration then expose slots 0..s-1 with the values they held.
C6_SetSentinelFrame ==
    [][(last'.op = "setSentinel" /\ last'.pos <= N) =>
           /\ size' = last'.pos
           /\ storage' = storage
           /\ \A p \in 0 .. (last'.pos - 1) : at(p)' = Ref(p)
           /\ ForwardValues' = [i \in 1 .. last'.pos |-> storage[i - 1]]]_vars

\* The length was raised to N over a last slot holding a nonzero value.
C6_Witness ==
    /\ Live /\ last.op = "setSentinel" /\ last.pos = N
    /\ size = N
    /\ storage[N - 1] # 0
    /\ at(N - 1) = Ref(N - 1)

\* C7: operator= with k <= N elements writes them to slots 0..k-1 in order,
\* sets the length to k and leaves every slot k..N-1 as it was.
C7_AssignFrame ==
    [][(last'.op = "operator=" /\ Len(last'.init) <= N) =>
           /\ size' = Len(last'.init)
           /\ ~aborted'
           /\ \A i \in Slots :
                 storage'[i] = IF i < Len(last'.init)
                               THEN last'.init[i + 1] ELSE storage[i]]_vars

\* A shorter sequence was assigned and a nonzero value survives after it.
C7_Witness ==
    /\ Live /\ last.op = "operator=" /\ Len(last.init) < N
    /\ size = Len(last.init)
    /\ storage[N - 1] # 0

\* C8: a comparison with a container of the same length and the same
\* contents in slots 0..length-1 yields true.
C8_EqComparesPrefix ==
    (/\ last.op = "operator=="
     /\ size <= N
     /\ last.other.m_sentinel = size
     /\ \A i \in 0 .. (size - 1) : storage[i] = last.other.storage[i])
        => last.ret = Bool(TRUE)

\* C9: back() returns slot m_sentinel - 1 when the length is positive and
\* slot 0 when it is 0, does not fail, and changes neither length nor slots.
C9_Back ==
    [][(last'.op = "back") =>
           /\ last'.ret = Ref(IF m_sentinel > 0 THEN m_sentinel - 1 ELSE 0)
           /\ m_sentinel' = m_sentinel
           /\ storage' = storage
           /\ ~aborted']_vars

\* back() was called on an empty container and returned slot 0.
C9_Witness ==
    /\ Live /\ last.op = "back" /\ size = 0
    /\ last.ret = Ref(0)

\* C10: on a live object end() and cend() designate slot m_sentinel, so
\* end() - begin() = size(); rbegin() and crbegin() are seeded there; the
\* forward traversal visits slots 0..length-1 in order and the reverse
\* traversal the same slots backwards, neither a slot in length..N-1; a
\* recorded end() or rbegin() returned the position the state gives.
C10_EndAtLength ==
    Live =>
        /\ end = size /\ cend = size
        /\ end - begin = size
        /\ rbegin = end /\ crbegin = cend
        /\ ForwardSlots = Prefix(size)
        /\ ReverseSlots = ReversedPrefix(size)
        /\ \A i \in 1 .. Len(ForwardSlots) : ForwardSlots[i] \notin size .. (N - 1)
        /\ \A i \in 1 .. Len(ReverseSlots) : ReverseSlots[i] \notin size .. (N - 1)
        /\ (last.op \in {"end", "cend", "rbegin", "crbegin"}) =>
               (last.ret = Iter(size))

\* rbegin() was called on a container that is neither empty nor full.
C10_Witness ==
    /\ Live /\ last.op = "rbegin"
    /\ 0 < size /\ size < N
    /\ last.ret = Iter(size)
    /\ ReverseSlots = ReversedPrefix(size)
====
